---- MODULE Spec2Model ----
(***************************************************************************)
(* Model of scripts/validate.py, the registry validation run: load the     *)
(* parsed files, run the eight checks in pipeline order over the shared    *)
(* result accumulator, print the report and return the exit status.        *)
(*                                                                         *)
(* A string is a finite sequence of symbols.  The symbol " " is            *)
(* whitespace; every other symbol is a character ("1", ".") or an          *)
(* indivisible run of non-space characters ("pattern").  A YAML scalar is a *)
(* tagged value so that str() and strip() are computed, not assumed.       *)
(***************************************************************************)
EXTENDS Integers, Sequences, FiniteSets, TLC

\* ---------------------------------------------------------------- bounds
\* A registry holds at most MaxMdFiles doc-like files, and its entry-list files
\* weigh at most MaxSize minus the number of doc-like files, where an
\* entry-list file weighs one plus the number of its entries.
MaxMdFiles == 2
MaxSize == 4

\* The checker is run at most MaxRuns times on the same registry.
MaxRuns == 2

\* The latest commit message holds at most MaxMsgLen symbols.
MaxMsgLen == 4

\* ---------------------------------------------------------------- values
SVal(s) == [t |-> "str", s |-> s, n |-> 0]
IVal(n) == [t |-> "int", s |-> <<>>, n |-> n]
LVal == [t |-> "list", s |-> <<>>, n |-> 0]

Digit == {"0", "1", "2", "3", "4", "5", "6", "7", "8", "9"}

DigitOf(d) == CASE d = 0 -> "0" [] d = 1 -> "1" [] d = 2 -> "2" [] d = 3 -> "3"
                [] d = 4 -> "4" [] d = 5 -> "5" [] d = 6 -> "6" [] d = 7 -> "7"
                [] d = 8 -> "8" [] OTHER -> "9"

RECURSIVE Decimal(_)
Decimal(n) == IF n < 10 THEN <<DigitOf(n)>>
              ELSE Append(Decimal(n \div 10), DigitOf(n % 10))

\* str(v) of a parsed YAML value, as used by str(...) and by f-strings.
PyStr(v) == CASE v.t = "str" -> v.s
              [] v.t = "int" -> Decimal(v.n)
              [] OTHER -> <<"[", "]">>

RECURSIVE LStrip(_)
LStrip(s) == IF s # <<>> /\ Head(s) = " " THEN LStrip(Tail(s)) ELSE s

RECURSIVE RStrip(_)
RStrip(s) == IF s # <<>> /\ s[Len(s)] = " " THEN RStrip(SubSeq(s, 1, Len(s) - 1)) ELSE s

\* str.strip()
Strip(s) == RStrip(LStrip(s))

\* hash(v) succeeds: a list is unhashable, so "v in <set>" raises TypeError.
Hashable(v) == v.t # "list"

\* iter(v) succeeds for a list or a string, not for a number.
Iterable(v) == v.t # "int"

\* bool(v), as used by "x or []".
Truthy(v) == CASE v.t = "str" -> v.s # <<>>
               [] v.t = "int" -> v.n # 0
               [] OTHER -> FALSE

\* ------------------------------------------------------------- constants
VALID_SEVERITIES == {<<"critical">>, <<"warning">>, <<"info">>}
VALID_CATEGORIES == {<<"pattern">>, <<"adr">>, <<"doc">>, <<"behavioral">>, <<"error">>}
VALID_LANGUAGES == {<<"all">>, <<"python">>, <<"javascript">>, <<"typescript">>,
                    <<"java">>, <<"go">>, <<"rust">>, <<"csharp">>}

IsDigits(s) == Len(s) > 0 /\ \A i \in 1..Len(s) : s[i] \in Digit

\* SEMVER_RE.match(s) for ^\d+\.\d+\.\d+$
SEMVER_RE(s) ==
    \E i, j \in 1..Len(s) :
        /\ i < j
        /\ s[i] = "."
        /\ s[j] = "."
        /\ IsDigits(SubSeq(s, 1, i - 1))
        /\ IsDigits(SubSeq(s, i + 1, j - 1))
        /\ IsDigits(SubSeq(s, j + 1, Len(s)))

MD_REQUIRED_FIELDS == {"id", "title", "category", "language", "version", "created_at"}
YML_REQUIRED_FIELDS == {"id", "error_type", "severity", "pattern", "fix_template", "tags"}

\* ------------------------------------------------------------ file contents
\* A doc-like file: hdr is the shape of its header block, fm the mapping when
\* the header is a mapping (keys: the keys present).
MdFile(hdr, keys, id, category, language, version) ==
    [hdr |-> hdr, keys |-> keys, id |-> id, category |-> category,
     language |-> language, version |-> version]

NoFm == [kind |-> "none", keys |-> {}, id |-> SVal(<<>>), category |-> SVal(<<>>),
         language |-> SVal(<<>>), version |-> SVal(<<>>)]

\* parse_md_frontmatter: None when the file does not start with the marker,
\* has no closing marker (ValueError) or is not YAML (YAMLError); {} when the
\* header loads as a falsy value; otherwise whatever safe_load returned, which
\* is a mapping or, for a scalar or list header, that scalar or list.
parse_md_frontmatter(f) ==
    CASE f.hdr \in {"nomarker", "unclosed", "yamlerror"} -> NoFm
      [] f.hdr = "empty" -> [NoFm EXCEPT !.kind = "map"]
      [] f.hdr = "scalar" -> [NoFm EXCEPT !.kind = "scalar"]
      [] OTHER -> [kind |-> "map", keys |-> f.keys, id |-> f.id,
                   category |-> f.category, language |-> f.language,
                   version |-> f.version]

\* An entry of an entry-list file.  rel is the related_errors value when the
\* key is present (haskey): a list of items, or the scalar v.
Entry(isdict, keys, id, severity, haskey, islist, items, v) ==
    [isdict |-> isdict, keys |-> keys, id |-> id, severity |-> severity,
     rel |-> [haskey |-> haskey, islist |-> islist, items |-> items, v |-> v]]

YmlFile(body, entries) == [body |-> body, entries |-> entries]

NoList == [kind |-> "none", entries |-> <<>>]

\* parse_yml_file: the list when the file loads as a list, otherwise None.
parse_yml_file(f) ==
    IF f.body = "list" THEN [kind |-> "list", entries |-> f.entries] ELSE NoList

\* ---------------------------------------------------------------- messages
\* One (check, message) pair of CheckResult.  tag names the format string;
\* the other fields are the values interpolated into it.
Msg0(check, tag) ==
    [check |-> check, tag |-> tag, file |-> 0, id |-> <<>>, text |-> <<>>,
     fields |-> {}, locs |-> <<>>, lines |-> <<>>, n |-> 0, total |-> 0]

Loop0 == [valid |-> <<>>, errors |-> <<>>, fail_count |-> 0, total |-> 0, raised |-> FALSE]

\* --------------------------------------------- check A: frontmatter (98-124)
\* md_loop with the record kept whether or not fields are missing.
RECURSIVE md_loop_keeps_incomplete(_, _, _)
md_loop_keeps_incomplete(files, i, acc) ==
    IF i > Len(files) THEN acc
    ELSE LET fm == parse_md_frontmatter(files[i])
             missing == MD_REQUIRED_FIELDS \ fm.keys
         IN  IF fm.kind = "none"
             THEN md_loop_keeps_incomplete(files, i + 1,
                     [acc EXCEPT !.errors = Append(@, [Msg0("frontmatter", "malformed")
                                                         EXCEPT !.file = i]),
                                 !.fail_count = @ + 1])
             ELSE IF fm.kind = "scalar"
             THEN [acc EXCEPT !.raised = TRUE]
             ELSE IF missing # {}
             THEN md_loop_keeps_incomplete(files, i + 1,
                     [acc EXCEPT !.errors = Append(@, [Msg0("frontmatter", "missing")
                                                         EXCEPT !.file = i, !.fields = missing]),
                                 !.fail_count = @ + 1,
                                 !.valid = Append(@, [file |-> i, fm |-> fm])])
             ELSE md_loop_keeps_incomplete(files, i + 1,
                     [acc EXCEPT !.valid = Append(@, [file |-> i, fm |-> fm])])

RECURSIVE md_loop(_, _, _)
md_loop(files, i, acc) ==
    IF i > Len(files) THEN acc
    ELSE LET fm == parse_md_frontmatter(files[i])
             missing == MD_REQUIRED_FIELDS \ fm.keys
         IN  IF fm.kind = "none"
             THEN md_loop(files, i + 1,
                     [acc EXCEPT !.errors = Append(@, [Msg0("frontmatter", "malformed")
                                                         EXCEPT !.file = i]),
                                 !.fail_count = @ + 1])
             ELSE IF fm.kind = "scalar"
             THEN [acc EXCEPT !.raised = TRUE]   \* fm.keys(): AttributeError
             ELSE IF missing # {}
             THEN md_loop(files, i + 1,
                     [acc EXCEPT !.errors = Append(@, [Msg0("frontmatter", "missing")
                                                         EXCEPT !.file = i, !.fields = missing]),
                                 !.fail_count = @ + 1])
             ELSE md_loop(files, i + 1,
                     [acc EXCEPT !.valid = Append(@, [file |-> i, fm |-> fm])])

\* ---------------------------------------------- check B: yml-schema (129-165)
RECURSIVE entry_errors(_, _)
entry_errors(entries, i) ==
    IF i > Len(entries) THEN <<>>
    ELSE LET entry == entries[i]
             missing == YML_REQUIRED_FIELDS \ entry.keys
             rest == entry_errors(entries, i + 1)
         IN  IF ~entry.isdict
             THEN <<[i |-> i - 1, notdict |-> TRUE, id |-> <<>>, fields |-> {}]>> \o rest
             ELSE IF missing # {}
             THEN <<[i |-> i - 1, notdict |-> FALSE,
                     id |-> IF "id" \in entry.keys THEN PyStr(entry.id) ELSE <<"?">>,
                     fields |-> missing]>> \o rest
             ELSE rest

RECURSIVE yml_loop(_, _, _)
yml_loop(files, i, acc) ==
    IF i > Len(files) THEN acc
    ELSE LET parsed == parse_yml_file(files[i])
             file_errors == entry_errors(parsed.entries, 1)
         IN  IF parsed.kind = "none"
             THEN yml_loop(files, i + 1,
                     [acc EXCEPT !.errors = Append(@, [Msg0("yml-schema", "notlist")
                                                         EXCEPT !.file = i]),
                                 !.fail_count = @ + 1])
             ELSE IF file_errors # <<>>
             THEN yml_loop(files, i + 1,
                     [acc EXCEPT !.errors = Append(@, [Msg0("yml-schema", "entries")
                                                         EXCEPT !.file = i, !.lines = file_errors]),
                                 !.fail_count = @ + 1])
             ELSE yml_loop(files, i + 1,
                     [acc EXCEPT !.valid = Append(@, [file |-> i, entries |-> parsed.entries]),
                                 !.total = @ + Len(parsed.entries)])

\* The aggregate line that closes a check: one pass message when it counted no
\* failure, one FAIL message otherwise.
Closing(check, fail_count, total) ==
    [Msg0(check, IF fail_count = 0 THEN "pass" ELSE "summary")
        EXCEPT !.n = fail_count, !.total = total]

\* -------------------------------------------- check C: duplicate-id (170-198)
\* id_locations.setdefault(id_val, []).append(loc); the dict keeps the order
\* in which its keys were first inserted.
\* setdefault_append with the location list replaced instead of extended.
setdefault_replace(id_locations, id_val, loc) ==
    IF \E k \in DOMAIN id_locations : id_locations[k].id = id_val
    THEN [k \in DOMAIN id_locations |->
            IF id_locations[k].id = id_val
            THEN [id_locations[k] EXCEPT !.locs = <<loc>>]
            ELSE id_locations[k]]
    ELSE Append(id_locations, [id |-> id_val, locs |-> <<loc>>])

setdefault_append(id_locations, id_val, loc) ==
    IF \E k \in DOMAIN id_locations : id_locations[k].id = id_val
    THEN [k \in DOMAIN id_locations |->
            IF id_locations[k].id = id_val
            THEN [id_locations[k] EXCEPT !.locs = Append(@, loc)]
            ELSE id_locations[k]]
    ELSE Append(id_locations, [id |-> id_val, locs |-> <<loc>>])

\* id_val_of without the strip().
id_val_unstripped(keys, id) == IF "id" \in keys THEN PyStr(id) ELSE <<>>

\* str(record.get("id", "")).strip()
id_val_of(keys, id) == IF "id" \in keys THEN Strip(PyStr(id)) ELSE <<>>

RECURSIVE md_ids(_, _, _)
md_ids(md, i, id_locations) ==
    IF i > Len(md) THEN id_locations
    ELSE LET id_val == id_val_of(md[i].fm.keys, md[i].fm.id)
         IN  md_ids(md, i + 1,
                IF id_val # <<>>
                THEN setdefault_append(id_locations, id_val,
                                       [frontmatter |-> TRUE, file |-> md[i].file])
                ELSE id_locations)

\* The (file, entry) pairs in the order of the nested loops
\* "for path_str, entries in yml_entries.items(): for entry in entries".
RECURSIVE entries_of(_, _)
entries_of(yml, i) ==
    IF i > Len(yml) THEN <<>>
    ELSE [k \in 1..Len(yml[i].entries) |-> [file |-> yml[i].file, entry |-> yml[i].entries[k]]]
         \o entries_of(yml, i + 1)

RECURSIVE yml_ids(_, _, _)
yml_ids(pairs, i, id_locations) ==
    IF i > Len(pairs) THEN id_locations
    ELSE LET id_val == id_val_of(pairs[i].entry.keys, pairs[i].entry.id)
         IN  yml_ids(pairs, i + 1,
                IF id_val # <<>>
                THEN setdefault_append(id_locations, id_val,
                                       [frontmatter |-> FALSE, file |-> pairs[i].file])
                ELSE id_locations)

build_id_locations(md, yml) == yml_ids(entries_of(yml, 1), 1, md_ids(md, 1, <<>>))

\* duplicates_of with an identifier reported from its third location on.
duplicates_of_triples(id_locations) == SelectSeq(id_locations, LAMBDA e : Len(e.locs) > 2)

\* duplicates = {id_val: locs for ... if len(locs) > 1}, in dict order.
duplicates_of(id_locations) == SelectSeq(id_locations, LAMBDA e : Len(e.locs) > 1)

duplicate_msgs(duplicates) ==
    [k \in DOMAIN duplicates |->
        [Msg0("duplicate-id", "dup") EXCEPT !.id = duplicates[k].id,
                                            !.locs = duplicates[k].locs]]

keys_of(id_locations) == {id_locations[k].id : k \in DOMAIN id_locations}

\* ------------------------------------------ check D: related-errors (203-218)
\* entry.get("related_errors", []) or []: the sequence the for loop walks.
related_of(entry) ==
    CASE ~entry.rel.haskey -> <<>>
      [] entry.rel.islist -> entry.rel.items
      [] ~Truthy(entry.rel.v) -> <<>>
      [] OTHER -> [k \in DOMAIN entry.rel.v.s |-> SVal(<<entry.rel.v.s[k]>>)]

\* "for ref_id in related" raises TypeError on a truthy non-iterable.
related_raises(entry) ==
    entry.rel.haskey /\ ~entry.rel.islist /\ Truthy(entry.rel.v) /\ ~Iterable(entry.rel.v)

entry_id_str(entry) == IF "id" \in entry.keys THEN PyStr(entry.id) ELSE <<"?">>

ref_msgs(file, entry, all) ==
    LET related == related_of(entry)
        broken == SelectSeq(related, LAMBDA ref_id : PyStr(ref_id) \notin all)
    IN  [k \in DOMAIN broken |->
            [Msg0("related-errors", "item") EXCEPT !.file = file,
                                                   !.id = entry_id_str(entry),
                                                   !.text = PyStr(broken[k])]]

RECURSIVE related_loop(_, _, _, _)
related_loop(pairs, i, all, acc) ==
    IF i > Len(pairs) THEN acc
    ELSE IF related_raises(pairs[i].entry) THEN [acc EXCEPT !.raised = TRUE]
    ELSE LET msgs == ref_msgs(pairs[i].file, pairs[i].entry, all)
         IN  related_loop(pairs, i + 1, all,
                [acc EXCEPT !.errors = @ \o msgs, !.fail_count = @ + Len(msgs)])

\* ------------------------------------------------ check E: severity (223-237)
RECURSIVE severity_loop(_, _, _)
severity_loop(pairs, i, acc) ==
    IF i > Len(pairs) THEN acc
    ELSE LET entry == pairs[i].entry
             sev == IF "severity" \in entry.keys THEN entry.severity ELSE SVal(<<>>)
         IN  IF ~Hashable(sev) THEN [acc EXCEPT !.raised = TRUE]
             ELSE IF ~(sev.t = "str" /\ sev.s \in VALID_SEVERITIES)
             THEN severity_loop(pairs, i + 1,
                    [acc EXCEPT !.errors = Append(@, [Msg0("severity", "item")
                                                        EXCEPT !.file = pairs[i].file,
                                                               !.id = entry_id_str(entry),
                                                               !.text = PyStr(sev)]),
                                !.fail_count = @ + 1])
             ELSE severity_loop(pairs, i + 1, acc)

\* ------------------------- checks F, G, H: category, language, semver (242-291)
category_of(fm) == IF "category" \in fm.keys THEN Strip(PyStr(fm.category)) ELSE <<>>
language_of(fm) == IF "language" \in fm.keys THEN Strip(PyStr(fm.language)) ELSE <<>>
version_of(fm) == IF "version" \in fm.keys THEN Strip(PyStr(fm.version)) ELSE <<>>

category_ok(fm) == category_of(fm) \in VALID_CATEGORIES
language_ok(fm) == language_of(fm) \in VALID_LANGUAGES
semver_ok(fm) == SEMVER_RE(version_of(fm))

category_msgs(md) ==
    LET bad == SelectSeq(md, LAMBDA r : ~category_ok(r.fm))
    IN  [k \in DOMAIN bad |-> [Msg0("category", "item") EXCEPT !.file = bad[k].file,
                                                              !.text = category_of(bad[k].fm)]]

language_msgs(md) ==
    LET bad == SelectSeq(md, LAMBDA r : ~language_ok(r.fm))
    IN  [k \in DOMAIN bad |-> [Msg0("language", "item") EXCEPT !.file = bad[k].file,
                                                              !.text = language_of(bad[k].fm)]]

\* semver_msgs with the version matched as written, not stripped.
semver_msgs_unstripped(md) ==
    LET bad == SelectSeq(md, LAMBDA r : ~SEMVER_RE(PyStr(r.fm.version)))
    IN  [k \in DOMAIN bad |-> [Msg0("semver", "item") EXCEPT !.file = bad[k].file,
                                                            !.text = PyStr(bad[k].fm.version)]]

semver_msgs(md) ==
    LET bad == SelectSeq(md, LAMBDA r : ~semver_ok(r.fm))
    IN  [k \in DOMAIN bad |-> [Msg0("semver", "item") EXCEPT !.file = bad[k].file,
                                                            !.text = version_of(bad[k].fm)]]

\* ------------------------------------------------------------------- inputs
StrA == <<"A">>
V100 == <<"1", ".", "0", ".", "0">>

MdPool ==
    { MdFile("map", MD_REQUIRED_FIELDS, SVal(StrA), SVal(<<"pattern">>),
             SVal(<<"python">>), SVal(V100)),
      MdFile("map", MD_REQUIRED_FIELDS, SVal(<<"B">>), SVal(<<"bogus">>),
             SVal(<<"python">>), SVal(<<"1", ".", "0">>)),
      MdFile("map", MD_REQUIRED_FIELDS \ {"version"}, SVal(StrA), SVal(<<"bogus">>),
             SVal(<<"python">>), SVal(<<>>)),
      MdFile("nomarker", {}, SVal(<<>>), SVal(<<>>), SVal(<<>>), SVal(<<>>)),
      MdFile("empty", {}, SVal(<<>>), SVal(<<>>), SVal(<<>>), SVal(<<>>)),
      MdFile("scalar", {}, SVal(<<>>), SVal(<<>>), SVal(<<>>), SVal(<<>>)),
      MdFile("map", MD_REQUIRED_FIELDS, SVal(<<" ", "A">>), SVal(<<" ", "adr", " ">>),
             SVal(<<"go">>), SVal(<<" ">> \o V100)),
      MdFile("map", MD_REQUIRED_FIELDS, SVal(<<" ">>), SVal(<<"doc">>),
             SVal(<<"klingon">>), IVal(1)) }

EntryPool ==
    { Entry(TRUE, YML_REQUIRED_FIELDS, SVal(StrA), SVal(<<"critical">>),
            FALSE, TRUE, <<>>, SVal(<<>>)),
      Entry(TRUE, YML_REQUIRED_FIELDS, SVal(<<"C">>), SVal(<<"warning">>),
            TRUE, TRUE, <<SVal(StrA)>>, SVal(<<>>)),
      Entry(TRUE, YML_REQUIRED_FIELDS, SVal(<<"C">>), SVal(<<"fatal">>),
            TRUE, TRUE, <<SVal(<<"Z">>)>>, SVal(<<>>)),
      Entry(TRUE, YML_REQUIRED_FIELDS \ {"severity", "tags"}, SVal(<<"B">>), SVal(<<>>),
            TRUE, TRUE, <<SVal(<<"Z">>)>>, SVal(<<>>)),
      Entry(FALSE, {}, SVal(<<>>), SVal(<<>>), FALSE, TRUE, <<>>, SVal(<<>>)),
      Entry(TRUE, YML_REQUIRED_FIELDS, SVal(<<" ", "A">>), SVal(<<"info">>),
            TRUE, TRUE, <<SVal(<<" ", "A">>)>>, SVal(<<>>)),
      Entry(TRUE, YML_REQUIRED_FIELDS, SVal(<<>>), SVal(<<"info">>),
            TRUE, TRUE, <<SVal(<<>>)>>, SVal(<<>>)),
      Entry(TRUE, YML_REQUIRED_FIELDS, IVal(17), IVal(1),
            TRUE, TRUE, <<IVal(17)>>, SVal(<<>>)),
      Entry(TRUE, YML_REQUIRED_FIELDS, SVal(<<"D">>), SVal(<<"info">>),
            TRUE, FALSE, <<>>, IVal(5)),
      Entry(TRUE, YML_REQUIRED_FIELDS, SVal(<<"D">>), LVal,
            FALSE, TRUE, <<>>, SVal(<<>>)) }

\* Records that differ in their id value only and violate nothing else: the
\* id is empty, blank, plain, padded, an integer, or that integer as a string.
IdValues == { SVal(<<>>), SVal(<<" ">>), SVal(StrA), SVal(<<" ", "A">>),
              IVal(7), SVal(<<"7">>) }

MdIdPool ==
    { MdFile("map", MD_REQUIRED_FIELDS, id, SVal(<<"pattern">>), SVal(<<"python">>),
             SVal(V100)) : id \in IdValues }

EntryIdPool ==
    { Entry(TRUE, YML_REQUIRED_FIELDS, id, SVal(<<"critical">>), FALSE, TRUE, <<>>,
            SVal(<<>>)) : id \in IdValues }

SeqsUpTo(S, n) == UNION {[1..m -> S] : m \in 0..n}

Weight(f) == 1 + Len(f.entries)

YmlFilesUpTo(k) ==
    {YmlFile("mapping", <<>>)} \cup {YmlFile("list", es) : es \in SeqsUpTo(EntryPool, k - 1)}

RECURSIVE YmlSeqs(_)
YmlSeqs(k) ==
    IF k <= 0 THEN {<<>>}
    ELSE {<<>>} \cup UNION {{<<f>> \o r : r \in YmlSeqs(k - Weight(f))} : f \in YmlFilesUpTo(k)}

\* ------------------------------------------- scripts/bump_version.py
\* int(s) of a string of decimal digits.
RECURSIVE ToInt(_)
ToInt(s) == IF s = <<>> THEN 0
            ELSE 10 * ToInt(SubSeq(s, 1, Len(s) - 1)) +
                 (CHOOSE d \in 0..9 : DigitOf(d) = s[Len(s)])

\* get_current_version (25-30): the three numbers of a version string that
\* matches ^(\d+)\.(\d+)\.(\d+)$, ok = FALSE where it raises ValueError.
get_current_version(version_str) ==
    IF SEMVER_RE(version_str)
    THEN LET i == CHOOSE i \in 1..Len(version_str) :
                     version_str[i] = "." /\ IsDigits(SubSeq(version_str, 1, i - 1))
             j == CHOOSE j \in (i + 1)..Len(version_str) :
                     version_str[j] = "." /\ IsDigits(SubSeq(version_str, i + 1, j - 1))
         IN  [ok |-> TRUE,
              major |-> ToInt(SubSeq(version_str, 1, i - 1)),
              minor |-> ToInt(SubSeq(version_str, i + 1, j - 1)),
              patch |-> ToInt(SubSeq(version_str, j + 1, Len(version_str)))]
    ELSE [ok |-> FALSE, major |-> 0, minor |-> 0, patch |-> 0]

\* str.lower(), symbol by symbol.
LowerSym(c) == CASE c = "BUMP:" -> "bump:"
                 [] c = "Major" -> "major"
                 [] c = "MINOR" -> "minor"
                 [] c = "Patch" -> "patch"
                 [] OTHER -> c
Lower(s) == [k \in DOMAIN s |-> LowerSym(s[k])]

\* "label in text" for strings.
Contains(text, label) ==
    \E k \in 0..(Len(text) - Len(label)) : SubSeq(text, k + 1, k + Len(label)) = label

\* get_bump_type (33-65): env is the value of BUMP_TYPE ("" when unset), git
\* tells whether "git log" could be run, stdout is what it printed.
get_bump_type(env, git, stdout) ==
    LET env_bump == Lower(Strip(env))
        commit_msg == IF git = "ok" THEN Lower(Strip(stdout)) ELSE <<>>
    IN  IF env_bump \in {<<"major">>, <<"minor">>, <<"patch">>} THEN env_bump[1]
        ELSE IF Contains(commit_msg, <<"bump:", "major">>) THEN "major"
        ELSE IF Contains(commit_msg, <<"bump:", "minor">>) THEN "minor"
        ELSE IF Contains(commit_msg, <<"bump:", "patch">>) THEN "patch"
        ELSE "patch"

\* bump_version with minor and patch kept on a major bump, patch on a minor bump.
bump_version_no_reset(major, minor, patch, bump_type) ==
    IF bump_type = "major"
    THEN Decimal(major + 1) \o <<".">> \o Decimal(minor) \o <<".">> \o Decimal(patch)
    ELSE IF bump_type = "minor"
    THEN Decimal(major) \o <<".">> \o Decimal(minor + 1) \o <<".">> \o Decimal(patch)
    ELSE Decimal(major) \o <<".">> \o Decimal(minor) \o <<".">> \o Decimal(patch + 1)

\* bump_version (68-74)
bump_version(major, minor, patch, bump_type) ==
    IF bump_type = "major"
    THEN Decimal(major + 1) \o <<".">> \o <<"0">> \o <<".">> \o <<"0">>
    ELSE IF bump_type = "minor"
    THEN Decimal(major) \o <<".">> \o Decimal(minor + 1) \o <<".">> \o <<"0">>
    ELSE Decimal(major) \o <<".">> \o Decimal(minor) \o <<".">> \o Decimal(patch + 1)

\* The version bumper is not run.
Idle == [stage |-> "idle", version |-> <<>>, env |-> <<>>, git |-> "ok", stdout |-> <<>>,
         major |-> 0, minor |-> 0, patch |-> 0, bump_type |-> "", new_version |-> <<>>]

\* The version strings found in manifest.json.
VersionPool == { <<"1", ".", "0", ".", "0">>, <<"0", ".", "9", ".", "9">>,
                 <<"9", ".", "1", "0", ".", "9", "9">>, <<"1", ".", "0">> }

\* The values of BUMP_TYPE.
EnvPool == { <<>>, <<" ", "Major", " ">>, <<"MINOR">>, <<"patch">>, <<"none">>,
             <<"major", " ", "minor">> }

\* The symbols of a commit message.
MsgSymbols == {"bump:", "BUMP:", "major", "minor", "patch", " "}

\* -------------------------------------------------------------------- state
\* md_files, yml_files: the files found, in discovery order (never changed);
\* pc: the step of main that runs next; exc: the exception that ended the run,
\* "" while none was raised (pc then stays at the step that raised);
\* errors, passes: results.errors and results.passes; md_frontmatters,
\* yml_entries, all_ids: the locals of main; output: the report lines printed;
\* exit: the value main returned, -1 while it has not returned;
\* reports: what the earlier runs of the checker on this registry printed and
\* returned, one element per finished process;
\* bumper: the run of scripts/bump_version.py (its inputs, its position and
\* its locals), Idle while the version bumper is not run.
VARIABLES md_files, yml_files, pc, exc, errors, passes, md_frontmatters, yml_entries,
          all_ids, output, exit, reports, bumper

vars == <<md_files, yml_files, pc, exc, errors, passes, md_frontmatters, yml_entries,
          all_ids, output, exit, reports, bumper>>

Init ==
    /\ md_files \in SeqsUpTo(MdPool, MaxMdFiles)
    /\ yml_files \in YmlSeqs(MaxSize - Len(md_files))
    /\ pc = "frontmatter"
    /\ exc = ""
    /\ errors = <<>>
    /\ passes = <<>>
    /\ md_frontmatters = <<>>
    /\ yml_entries = <<>>
    /\ all_ids = {}
    /\ output = <<>>
    /\ exit = -1
    /\ reports = <<>>
    /\ bumper = Idle

\* Finish with the closing line of a check that found failures also appended
\* to the passes.
Finish_ok_after_fail(acc, closing, next, error) ==
    IF acc.raised
    THEN /\ errors' = errors \o acc.errors
         /\ passes' = passes
         /\ pc' = pc
         /\ exc' = error
    ELSE /\ errors' = errors \o acc.errors \o
                      (IF acc.fail_count = 0 THEN <<>> ELSE <<closing>>)
         /\ passes' = passes \o <<closing>>
         /\ pc' = next
         /\ exc' = exc

\* results.fail / results.ok for one finished check; a check that raised
\* leaves the messages it had appended and ends the run.
Finish(acc, closing, next, error) ==
    IF acc.raised
    THEN /\ errors' = errors \o acc.errors
         /\ passes' = passes
         /\ pc' = pc
         /\ exc' = error
    ELSE /\ errors' = errors \o acc.errors \o
                      (IF acc.fail_count = 0 THEN <<>> ELSE <<closing>>)
         /\ passes' = passes \o (IF acc.fail_count = 0 THEN <<closing>> ELSE <<>>)
         /\ pc' = next
         /\ exc' = exc

check_md_frontmatter ==
    /\ pc = "frontmatter"
    /\ exc = ""
    /\ LET acc == md_loop(md_files, 1, Loop0)
       IN  /\ Finish(acc, Closing("frontmatter", acc.fail_count, Len(md_files)), "yml-schema",
                     "AttributeError")
           /\ md_frontmatters' = IF acc.raised THEN md_frontmatters ELSE acc.valid
    /\ UNCHANGED <<bumper, reports, md_files, yml_files, yml_entries, all_ids, output, exit>>

\* check_yml_entries returning no file at all once one file has failed.
check_yml_entries_all_or_nothing ==
    /\ pc = "yml-schema"
    /\ exc = ""
    /\ LET acc == yml_loop(yml_files, 1, Loop0)
       IN  /\ Finish(acc, [Closing("yml-schema", acc.fail_count, Len(yml_files))
                             EXCEPT !.n = IF acc.fail_count = 0 THEN acc.total ELSE @],
                     "duplicate-id", "")
           /\ yml_entries' = IF acc.fail_count = 0 THEN acc.valid ELSE <<>>
    /\ UNCHANGED <<bumper, reports, md_files, yml_files, md_frontmatters, all_ids, output, exit>>

check_yml_entries ==
    /\ pc = "yml-schema"
    /\ exc = ""
    /\ LET acc == yml_loop(yml_files, 1, Loop0)
       IN  /\ Finish(acc, [Closing("yml-schema", acc.fail_count, Len(yml_files))
                             EXCEPT !.n = IF acc.fail_count = 0 THEN acc.total ELSE @],
                     "duplicate-id", "")
           /\ yml_entries' = acc.valid
    /\ UNCHANGED <<bumper, reports, md_files, yml_files, md_frontmatters, all_ids, output, exit>>

check_no_duplicate_ids ==
    /\ pc = "duplicate-id"
    /\ exc = ""
    /\ LET id_locations == build_id_locations(md_frontmatters, yml_entries)
           duplicates == duplicates_of(id_locations)
       IN  /\ errors' = errors \o duplicate_msgs(duplicates)
           /\ passes' = passes \o
                  (IF duplicates = <<>>
                   THEN <<[Msg0("duplicate-id", "pass") EXCEPT !.total = Len(id_locations)]>>
                   ELSE <<>>)
           /\ all_ids' = keys_of(id_locations)
    /\ pc' = "related-errors"
    /\ UNCHANGED <<bumper, reports, md_files, yml_files, exc, md_frontmatters, yml_entries, output, exit>>

check_related_errors ==
    /\ pc = "related-errors"
    /\ exc = ""
    /\ LET acc == related_loop(entries_of(yml_entries, 1), 1, all_ids, Loop0)
       IN  Finish(acc, Closing("related-errors", acc.fail_count, 0), "severity", "TypeError")
    /\ UNCHANGED <<bumper, reports, md_files, yml_files, md_frontmatters, yml_entries, all_ids, output, exit>>

check_severity_values ==
    /\ pc = "severity"
    /\ exc = ""
    /\ LET acc == severity_loop(entries_of(yml_entries, 1), 1, Loop0)
       IN  Finish(acc, Closing("severity", acc.fail_count, 0), "category", "TypeError")
    /\ UNCHANGED <<bumper, reports, md_files, yml_files, md_frontmatters, yml_entries, all_ids, output, exit>>

\* A check over the doc records that cannot raise: its messages, then its closing line.
FinishMd(check, msgs, next) ==
    Finish([Loop0 EXCEPT !.errors = msgs, !.fail_count = Len(msgs)],
           Closing(check, Len(msgs), 0), next, "")

check_category_values ==
    /\ pc = "category"
    /\ exc = ""
    /\ FinishMd("category", category_msgs(md_frontmatters), "language")
    /\ UNCHANGED <<bumper, reports, md_files, yml_files, md_frontmatters, yml_entries, all_ids, output, exit>>

check_language_values ==
    /\ pc = "language"
    /\ exc = ""
    /\ FinishMd("language", language_msgs(md_frontmatters), "semver")
    /\ UNCHANGED <<bumper, reports, md_files, yml_files, md_frontmatters, yml_entries, all_ids, output, exit>>

check_semver ==
    /\ pc = "semver"
    /\ exc = ""
    /\ FinishMd("semver", semver_msgs(md_frontmatters), "summary")
    /\ UNCHANGED <<bumper, reports, md_files, yml_files, md_frontmatters, yml_entries, all_ids, output, exit>>

\* The separator line print() writes between the two blocks.
BlankLine == Msg0("", "blank")

\* print_summary with the failures printed before the passes.
print_summary_failures_first ==
    /\ pc = "summary"
    /\ exc = ""
    /\ output' = (IF errors # <<>> THEN errors \o <<BlankLine>> ELSE <<>>) \o passes
    /\ exit' = IF Len(errors) = 0 THEN 0 ELSE 1
    /\ pc' = "done"
    /\ UNCHANGED <<bumper, reports, md_files, yml_files, exc, errors, passes, md_frontmatters, yml_entries, all_ids>>

\* print_summary with the exit status taken from the last check alone.
print_summary_last_check ==
    /\ pc = "summary"
    /\ exc = ""
    /\ output' = passes \o (IF errors # <<>> THEN <<BlankLine>> \o errors ELSE <<>>)
    /\ exit' = IF errors # <<>> /\ errors[Len(errors)].check = "semver" THEN 1 ELSE 0
    /\ pc' = "done"
    /\ UNCHANGED <<bumper, reports, md_files, yml_files, exc, errors, passes, md_frontmatters, yml_entries, all_ids>>

\* main, lines 318-342: print the passes, then the failures if any, and return.
print_summary ==
    /\ pc = "summary"
    /\ exc = ""
    /\ output' = passes \o (IF errors # <<>> THEN <<BlankLine>> \o errors ELSE <<>>)
    /\ exit' = IF Len(errors) = 0 THEN 0 ELSE 1
    /\ pc' = "done"
    /\ UNCHANGED <<bumper, reports, md_files, yml_files, exc, errors, passes, md_frontmatters, yml_entries, all_ids>>

\* run_again with the accumulator of the finished run carried over.
run_again_keeps_results ==
    /\ pc = "done"
    /\ Len(reports) + 1 < MaxRuns
    /\ reports' = Append(reports, [output |-> output, exit |-> exit])
    /\ pc' = "frontmatter"
    /\ md_frontmatters' = <<>>
    /\ yml_entries' = <<>>
    /\ all_ids' = {}
    /\ output' = <<>>
    /\ exit' = -1
    /\ UNCHANGED <<bumper, md_files, yml_files, exc, errors, passes>>

\* The checker is started once more on the unchanged registry: a new process
\* imports the module, which creates results (line 56), and calls main
\* (lines 345-346); the files are found in the same order.
run_again ==
    /\ pc = "done"
    /\ Len(reports) + 1 < MaxRuns
    /\ reports' = Append(reports, [output |-> output, exit |-> exit])
    /\ pc' = "frontmatter"
    /\ errors' = <<>>
    /\ passes' = <<>>
    /\ md_frontmatters' = <<>>
    /\ yml_entries' = <<>>
    /\ all_ids' = {}
    /\ output' = <<>>
    /\ exit' = -1
    /\ UNCHANGED <<bumper, md_files, yml_files, exc>>

Next ==
    \/ check_md_frontmatter
    \/ check_yml_entries
    \/ check_no_duplicate_ids
    \/ check_related_errors
    \/ check_severity_values
    \/ check_category_values
    \/ check_language_values
    \/ check_semver
    \/ print_summary

Spec == Init /\ [][Next]_vars

\* ------------------------------------- the run of bump_version.main (105-137)
bump_get_current_version ==
    /\ bumper.stage = "start"
    /\ LET v == get_current_version(bumper.version)
       IN  bumper' = IF v.ok
                     THEN [bumper EXCEPT !.stage = "versioned", !.major = v.major,
                                         !.minor = v.minor, !.patch = v.patch]
                     ELSE [bumper EXCEPT !.stage = "ValueError"]
    /\ UNCHANGED <<md_files, yml_files, pc, exc, errors, passes, md_frontmatters,
                   yml_entries, all_ids, output, exit, reports>>

\* What "git log -1" gives: a message, or nothing when it cannot be run.
GitLog == { [git |-> "ok", stdout |-> s] : s \in SeqsUpTo(MsgSymbols, MaxMsgLen) }
             \cup { [git |-> "failed", stdout |-> <<>>] }

bump_get_bump_type ==
    /\ bumper.stage = "versioned"
    /\ \E env \in EnvPool, log \in GitLog :
          bumper' = [bumper EXCEPT !.stage = "typed", !.env = env, !.git = log.git,
                                   !.stdout = log.stdout,
                                   !.bump_type = get_bump_type(env, log.git, log.stdout)]
    /\ UNCHANGED <<md_files, yml_files, pc, exc, errors, passes, md_frontmatters,
                   yml_entries, all_ids, output, exit, reports>>

bump_bump_version ==
    /\ bumper.stage = "typed"
    /\ bumper' = [bumper EXCEPT !.stage = "done",
                                !.new_version = bump_version(bumper.major, bumper.minor,
                                                             bumper.patch, bumper.bump_type)]
    /\ UNCHANGED <<md_files, yml_files, pc, exc, errors, passes, md_frontmatters,
                   yml_entries, all_ids, output, exit, reports>>

InitBump ==
    /\ md_files = <<>>
    /\ yml_files = <<>>
    /\ pc = "frontmatter"
    /\ exc = ""
    /\ errors = <<>>
    /\ passes = <<>>
    /\ md_frontmatters = <<>>
    /\ yml_entries = <<>>
    /\ all_ids = {}
    /\ output = <<>>
    /\ exit = -1
    /\ reports = <<>>
    /\ \E version \in VersionPool :
          bumper = [Idle EXCEPT !.stage = "start", !.version = version]

NextBump == bump_get_current_version \/ bump_get_bump_type \/ bump_bump_version

SpecBump == InitBump /\ [][NextBump]_vars

\* Runs of the checker on registries whose records differ in their ids only:
\* doc files and at most one entry-list file.
InitIds ==
    /\ md_files \in SeqsUpTo(MdIdPool, MaxMdFiles)
    /\ yml_files \in {<<>>} \cup
          { <<YmlFile("list", es)>> :
               es \in SeqsUpTo(EntryIdPool, MaxSize - 1 - Len(md_files)) }
    /\ pc = "frontmatter"
    /\ exc = ""
    /\ errors = <<>>
    /\ passes = <<>>
    /\ md_frontmatters = <<>>
    /\ yml_entries = <<>>
    /\ all_ids = {}
    /\ output = <<>>
    /\ exit = -1
    /\ reports = <<>>
    /\ bumper = Idle

SpecIds == InitIds /\ [][Next]_vars

\* Repeated runs of the checker on registries one size smaller.
InitRerun ==
    /\ md_files \in SeqsUpTo(MdPool, MaxMdFiles - 1)
    /\ yml_files \in YmlSeqs(MaxSize - 1 - Len(md_files))
    /\ pc = "frontmatter"
    /\ exc = ""
    /\ errors = <<>>
    /\ passes = <<>>
    /\ md_frontmatters = <<>>
    /\ yml_entries = <<>>
    /\ all_ids = {}
    /\ output = <<>>
    /\ exit = -1
    /\ reports = <<>>
    /\ bumper = Idle

NextRerun == Next \/ run_again

SpecRerun == InitRerun /\ [][NextRerun]_vars

\* ===================================================================== claims
\* Vocabulary of the claims, stated on the registry and on the report.
Stages == <<"frontmatter", "yml-schema", "duplicate-id", "related-errors", "severity",
            "category", "language", "semver", "summary", "done">>

StageNo(name) == CHOOSE k \in DOMAIN Stages : Stages[k] = name

\* The named check has run to its end.
Past(check) == StageNo(pc) > StageNo(check)

Returned == pc = "done"

CheckNames == {Stages[k] : k \in 1..8}

\* The number of messages of a sequence that satisfy a test.
Count(msgs, Test(_)) == Cardinality({k \in DOMAIN msgs : Test(msgs[k])})

\* The identifier of a record as the registry compares identifiers: the
\* string form of the id value without surrounding whitespace.
Ident(v) == Strip(PyStr(v))

\* Doc-like file i was read as a mapping / has no missing required field.
MdReadable(i) == md_files[i].hdr \in {"map", "empty"}
MdComplete(i) ==
    /\ MdReadable(i)
    /\ MD_REQUIRED_FIELDS \subseteq (IF md_files[i].hdr = "map" THEN md_files[i].keys ELSE {})

\* Entry-list file j was read as a list; its entry k has no missing field;
\* every entry of the file is a mapping with no missing field.
YmlReadable(j) == yml_files[j].body = "list"
EntryComplete(j, k) ==
    /\ YmlReadable(j)
    /\ yml_files[j].entries[k].isdict
    /\ YML_REQUIRED_FIELDS \subseteq yml_files[j].entries[k].keys
YmlComplete(j) ==
    /\ YmlReadable(j)
    /\ \A k \in DOMAIN yml_files[j].entries : EntryComplete(j, k)

\* The record of doc-like file i / entry k of entry-list file j is among the
\* records main hands to the later checks.
MdForwarded(i) ==
    \E r \in DOMAIN md_frontmatters :
        /\ md_frontmatters[r].file = i
        /\ md_frontmatters[r].fm = parse_md_frontmatter(md_files[i])
YmlForwarded(j, k) ==
    \E r \in DOMAIN yml_entries :
        /\ yml_entries[r].file = j
        /\ k \in DOMAIN yml_entries[r].entries
        /\ yml_entries[r].entries[k] = yml_files[j].entries[k]

\* C1: main returns 0 exactly when no failure message of any of the eight
\* checks was accumulated, and 1 otherwise; before it returns there is no
\* exit status.
C1_ExitIffNoFailure ==
    /\ Returned => /\ exit \in {0, 1}
                   /\ exit = 0 <=> Count(errors, LAMBDA m : m.check \in CheckNames) = 0
    /\ ~Returned => exit = -1

C1_Witness ==
    /\ Returned
    /\ exit = 1
    /\ Count(errors, LAMBDA m : m.check = "frontmatter") > 0
    /\ Count(errors, LAMBDA m : m.check = "severity") > 0

\* The parsed records of the registry that carry an id: doc records (one per
\* doc-like file read as a mapping) and error entries (the mappings of the
\* entry-list files read as lists).
Rec(md, file, k) == [md |-> md, file |-> file, k |-> k]
MdRecords == {Rec(TRUE, i, 0) : i \in {i \in DOMAIN md_files :
                  md_files[i].hdr = "map" /\ "id" \in md_files[i].keys}}
YmlRecords ==
    UNION {{Rec(FALSE, j, k) : k \in {k \in DOMAIN yml_files[j].entries :
                  /\ yml_files[j].entries[k].isdict
                  /\ "id" \in yml_files[j].entries[k].keys}}
           : j \in {j \in DOMAIN yml_files : YmlReadable(j)}}
Records == MdRecords \cup YmlRecords

RecId(r) == IF r.md THEN md_files[r.file].id ELSE yml_files[r.file].entries[r.k].id
RecForwarded(r) == IF r.md THEN MdForwarded(r.file) ELSE YmlForwarded(r.file, r.k)

\* The report holds a message that satisfies a test.
Reported(Test(_)) == \E k \in DOMAIN output : Test(output[k])

ExactlyIn(v, S) == v.t = "str" /\ v.s \in S

\* The related_errors value of an entry is absent or a list of references,
\* each spelling the id of some record of the registry.
RefsResolve(e) ==
    \/ ~e.rel.haskey
    \/ /\ e.rel.islist
       /\ \A n \in DOMAIN e.rel.items :
              \E r \in Records : PyStr(e.rel.items[n]) = PyStr(RecId(r))

\* A registry with no malformed file, no record with a missing field, no two
\* records with the same (non-empty) identifier, no broken reference and only
\* permitted severity, category, language and version values.
Clean ==
    /\ \A i \in DOMAIN md_files : md_files[i].hdr = "map" /\ MdComplete(i)
    /\ \A j \in DOMAIN yml_files : YmlComplete(j)
    /\ \A r \in Records : Ident(RecId(r)) # <<>>
    /\ \A r1, r2 \in Records : r1 # r2 => Ident(RecId(r1)) # Ident(RecId(r2))
    /\ \A j \in DOMAIN yml_files : \A k \in DOMAIN yml_files[j].entries :
          /\ RefsResolve(yml_files[j].entries[k])
          /\ ExactlyIn(yml_files[j].entries[k].severity, VALID_SEVERITIES)
    /\ \A i \in DOMAIN md_files :
          /\ ExactlyIn(md_files[i].category, VALID_CATEGORIES)
          /\ ExactlyIn(md_files[i].language, VALID_LANGUAGES)
          /\ md_files[i].version.t = "str" /\ SEMVER_RE(md_files[i].version.s)

\* C2: the validation run of a clean registry (the empty registry included)
\* raises nothing and ends with exit status 0.
C2_CleanRegistryExitsZero ==
    Clean => /\ exc = ""
             /\ Returned => exit = 0

\* C3: whenever two records of the registry, of any kinds and in any files,
\* share an identifier X (empty or blank identifiers and records of a file with
\* a schema-invalid entry included), the report holds a duplicate-id failure
\* naming X and the exit status is 1.
C3_EveryDuplicateReported ==
    Returned =>
        \A r1, r2 \in Records :
            (r1 # r2 /\ Ident(RecId(r1)) = Ident(RecId(r2))) =>
                /\ Reported(LAMBDA m : m.check = "duplicate-id" /\ m.tag = "dup"
                                         /\ m.id = Ident(RecId(r1)))
                /\ exit = 1

\* C3 as amended: whenever two forwarded records share a non-empty identifier
\* X (compared as trimmed strings), the report holds a duplicate-id failure
\* naming X and the exit status is 1.
C3_ForwardedDuplicateReported ==
    Returned =>
        \A r1, r2 \in Records :
            (/\ r1 # r2
             /\ RecForwarded(r1) /\ RecForwarded(r2)
             /\ Ident(RecId(r1)) = Ident(RecId(r2))
             /\ Ident(RecId(r1)) # <<>>) =>
                /\ Reported(LAMBDA m : m.check = "duplicate-id" /\ m.tag = "dup"
                                         /\ m.id = Ident(RecId(r1)))
                /\ exit = 1

\* A doc record and an error entry, both forwarded, whose ids are spelled
\* differently and are the same identifier; the run has returned.
C3_Witness ==
    /\ Returned
    /\ \E r1 \in MdRecords, r2 \in YmlRecords :
          /\ RecForwarded(r1) /\ RecForwarded(r2)
          /\ Ident(RecId(r1)) = Ident(RecId(r2))
          /\ PyStr(RecId(r1)) # PyStr(RecId(r2))
          /\ Ident(RecId(r1)) # <<>>

\* C4: a forwarded entry's reference whose string form is absent from the
\* identifier set yields a related-errors failure naming the entry and the
\* missing identifier, with exit status 1; a reference that spells the
\* (non-blank) id of a forwarded record yields no related-errors failure.
C4_ReferencesResolve ==
    Returned =>
        \A r \in YmlRecords : RecForwarded(r) =>
            LET e == yml_files[r.file].entries[r.k]
                related == related_of(e)
            IN  \A n \in DOMAIN related :
                    LET named(m) == /\ m.check = "related-errors" /\ m.tag = "item"
                                    /\ m.file = r.file
                                    /\ m.text = PyStr(related[n])
                    IN  /\ PyStr(related[n]) \notin all_ids =>
                              /\ Reported(LAMBDA m : named(m) /\ m.id = entry_id_str(e))
                              /\ exit = 1
                        /\ (\E t \in Records : /\ RecForwarded(t)
                                               /\ Ident(RecId(t)) # <<>>
                                               /\ PyStr(RecId(t)) = PyStr(related[n]))
                              => ~Reported(named)

\* C5: a file that cannot be read as its expected format never aborts the run:
\* no error is raised out of the schema checks, and once they have run every
\* such file has one schema failure of its own and no forwarded record.
C5_ParseFailureNeverAborts ==
    /\ exc # "AttributeError"
    /\ Past("yml-schema") =>
          /\ \A i \in DOMAIN md_files : md_files[i].hdr \notin {"map", "empty"} =>
                /\ Count(errors, LAMBDA m : m.check = "frontmatter" /\ m.tag = "malformed"
                                               /\ m.file = i) = 1
                /\ \A r \in DOMAIN md_frontmatters : md_frontmatters[r].file # i
          /\ \A j \in DOMAIN yml_files : ~YmlReadable(j) =>
                /\ Count(errors, LAMBDA m : m.check = "yml-schema" /\ m.tag = "notlist"
                                               /\ m.file = j) = 1
                /\ \A r \in DOMAIN yml_entries : yml_entries[r].file # j

\* C6: once the schema checks have run, every parsed record with no missing
\* required field is among the forwarded records at every later step, also
\* an entry whose file holds another entry that is not a mapping or misses
\* fields.
C6_CompleteRecordForwarded ==
    Past("yml-schema") =>
        /\ \A i \in DOMAIN md_files : MdComplete(i) => MdForwarded(i)
        /\ \A j \in DOMAIN yml_files : \A k \in DOMAIN yml_files[j].entries :
              EntryComplete(j, k) => YmlForwarded(j, k)

\* C6 as amended: every doc record with no missing field is forwarded, and
\* every error entry is forwarded whose file holds only mappings with no
\* missing field.
C6_RecordOfCompleteFileForwarded ==
    Past("yml-schema") =>
        /\ \A i \in DOMAIN md_files : MdComplete(i) => MdForwarded(i)
        /\ \A j \in DOMAIN yml_files : YmlComplete(j) =>
              \A k \in DOMAIN yml_files[j].entries : YmlForwarded(j, k)

\* The run has returned on a registry with a complete entry-list file, whose
\* entries are forwarded, and an entry-list file that has an incomplete entry.
C6_Witness ==
    /\ Returned
    /\ \E j, j2 \in DOMAIN yml_files :
          /\ YmlComplete(j) /\ yml_files[j].entries # <<>> /\ YmlForwarded(j, 1)
          /\ YmlReadable(j2) /\ ~YmlComplete(j2)

\* The parsed records that fail the schema check, and what each misses.
MdIncomplete == {i \in DOMAIN md_files : MdReadable(i) /\ ~MdComplete(i)}
EntriesIncomplete ==
    UNION {{Rec(FALSE, j, k) : k \in {k \in DOMAIN yml_files[j].entries : ~EntryComplete(j, k)}}
           : j \in {j \in DOMAIN yml_files : YmlReadable(j)}}
MdMissing(i) == MD_REQUIRED_FIELDS \ (IF md_files[i].hdr = "map" THEN md_files[i].keys ELSE {})

\* Doc-like file i is reported once by the frontmatter check, naming its
\* missing fields, and by no later check.
MdReportedOnce(i) ==
    /\ Count(output, LAMBDA m : m.check = "frontmatter" /\ m.file = i) = 1
    /\ Reported(LAMBDA m : /\ m.check = "frontmatter" /\ m.tag = "missing"
                           /\ m.file = i /\ m.fields = MdMissing(i))
    /\ ~Reported(LAMBDA m : /\ m.check \in {"category", "language", "semver"} /\ m.file = i)
    /\ ~Reported(LAMBDA m : /\ m.check = "duplicate-id"
                            /\ \E n \in DOMAIN m.locs : m.locs[n] = [frontmatter |-> TRUE, file |-> i])

\* Entry k of entry-list file j is reported once, in the one yml-schema
\* message of its file, and the file is named by no later check.
EntryReportedOnce(j, k) ==
    LET e == yml_files[j].entries[k]
    IN  /\ Count(output, LAMBDA m : m.check = "yml-schema" /\ m.file = j) = 1
        /\ Reported(LAMBDA m :
              /\ m.check = "yml-schema" /\ m.tag = "entries" /\ m.file = j
              /\ Cardinality({n \in DOMAIN m.lines : m.lines[n].i = k - 1}) = 1
              /\ \E n \in DOMAIN m.lines :
                    /\ m.lines[n].i = k - 1
                    /\ m.lines[n].notdict = ~e.isdict
                    /\ e.isdict => m.lines[n].fields = YML_REQUIRED_FIELDS \ e.keys)
        /\ ~Reported(LAMBDA m : m.check \in {"related-errors", "severity"} /\ m.file = j)
        /\ ~Reported(LAMBDA m : /\ m.check = "duplicate-id"
                                /\ \E n \in DOMAIN m.locs : m.locs[n] = [frontmatter |-> FALSE, file |-> j])

\* C7: a record that fails the schema check is reported once by the schema
\* check, naming its missing fields, yields no message of any later check, and
\* its identifier is not in the identifier set.
C7_NoDoubleReporting ==
    Returned =>
        /\ \A i \in MdIncomplete :
              /\ MdReportedOnce(i)
              /\ Rec(TRUE, i, 0) \in Records => Ident(md_files[i].id) \notin all_ids
        /\ \A r \in EntriesIncomplete :
              /\ EntryReportedOnce(r.file, r.k)
              /\ r \in Records => Ident(RecId(r)) \notin all_ids

\* The identifier map holds no location of the record.
NoLocation(r) ==
    \A n \in DOMAIN build_id_locations(md_frontmatters, yml_entries) :
        LET locs == build_id_locations(md_frontmatters, yml_entries)[n].locs
        IN  \A l \in DOMAIN locs : locs[l] # [frontmatter |-> r.md, file |-> r.file]

\* C7 as amended: a record that fails the schema check is reported once by
\* the schema check, naming its missing fields, yields no message of any later
\* check and no location in the identifier map; its identifier is in the
\* identifier set only if a forwarded record has the same identifier.
C7_NoDoubleReportingNoLocation ==
    Returned =>
        /\ \A i \in MdIncomplete :
              /\ MdReportedOnce(i)
              /\ NoLocation(Rec(TRUE, i, 0))
              /\ (Rec(TRUE, i, 0) \in Records /\ Ident(md_files[i].id) \in all_ids) =>
                    \E t \in Records : RecForwarded(t) /\ Ident(RecId(t)) = Ident(md_files[i].id)
        /\ \A r \in EntriesIncomplete :
              /\ EntryReportedOnce(r.file, r.k)
              /\ NoLocation(r)
              /\ (r \in Records /\ Ident(RecId(r)) \in all_ids) =>
                    \E t \in Records : RecForwarded(t) /\ Ident(RecId(t)) = Ident(RecId(r))

\* The run has returned on a registry with a doc record that misses version
\* and whose category is not permitted, and an entry that misses fields and
\* holds a reference to no record.
C7_Witness ==
    /\ Returned
    /\ \E i \in MdIncomplete : /\ MdMissing(i) = {"version"}
                               /\ Ident(md_files[i].category) \notin VALID_CATEGORIES
    /\ \E r \in EntriesIncomplete :
          LET e == yml_files[r.file].entries[r.k]
          IN  e.isdict /\ e.rel.items # <<>> /\ ~RefsResolve(e)

\* The forwarded doc-like files and entry-list files.
MdKept == {i \in DOMAIN md_files : MdForwarded(i)}
YmlKept == {j \in DOMAIN yml_files : \E r \in DOMAIN yml_entries : yml_entries[r].file = j}

\* A value outside its permitted set or pattern: severity is compared as it
\* stands, category, language and version as trimmed strings.
SeverityViolates(e) == ~ExactlyIn(e.severity, VALID_SEVERITIES)
FieldViolates(check, f) ==
    CASE check = "category" -> Ident(f.category) \notin VALID_CATEGORIES
      [] check = "language" -> Ident(f.language) \notin VALID_LANGUAGES
      [] OTHER -> ~SEMVER_RE(Ident(f.version))
FieldText(check, f) ==
    CASE check = "category" -> Ident(f.category)
      [] check = "language" -> Ident(f.language)
      [] OTHER -> Ident(f.version)

\* The aggregate pass message of a check is in the report once when the check
\* found no violation, and not at all otherwise.
PassIffNone(check, violations) ==
    Count(output, LAMBDA m : m.check = check /\ m.tag = "pass") =
        (IF violations = 0 THEN 1 ELSE 0)

\* C8: in the report of a run that returned, each of the four value checks
\* has exactly one failure message per violating forwarded record (none for a
\* record whose value is permitted), naming the file and the value, and one
\* aggregate pass message exactly when it found no violation.
C8_OneFailurePerViolation ==
    Returned =>
        /\ \A j \in YmlKept :
              Count(output, LAMBDA m : m.check = "severity" /\ m.tag = "item" /\ m.file = j)
                = Cardinality({k \in DOMAIN yml_files[j].entries :
                                  SeverityViolates(yml_files[j].entries[k])})
        /\ \A j \in YmlKept : \A k \in DOMAIN yml_files[j].entries :
              SeverityViolates(yml_files[j].entries[k]) =>
                  Reported(LAMBDA m : /\ m.check = "severity" /\ m.tag = "item" /\ m.file = j
                                      /\ m.id = PyStr(yml_files[j].entries[k].id)
                                      /\ m.text = PyStr(yml_files[j].entries[k].severity))
        /\ PassIffNone("severity",
              Cardinality({r \in YmlRecords : r.file \in YmlKept
                              /\ SeverityViolates(yml_files[r.file].entries[r.k])}))
        /\ \A check \in {"category", "language", "semver"} :
              /\ \A i \in MdKept :
                    /\ Count(output, LAMBDA m : m.check = check /\ m.tag = "item" /\ m.file = i)
                         = (IF FieldViolates(check, md_files[i]) THEN 1 ELSE 0)
                    /\ FieldViolates(check, md_files[i]) =>
                          Reported(LAMBDA m : /\ m.check = check /\ m.tag = "item" /\ m.file = i
                                              /\ m.text = FieldText(check, md_files[i]))
              /\ PassIffNone(check,
                    Cardinality({i \in MdKept : FieldViolates(check, md_files[i])}))
              /\ Count(output, LAMBDA m : m.check = check /\ m.tag = "item")
                   = Cardinality({i \in MdKept : FieldViolates(check, md_files[i])})

\* The run has returned on a registry with a forwarded doc record whose
\* category and version both violate, a forwarded doc record with padded
\* permitted values, and a forwarded entry whose severity violates.
C8_Witness ==
    /\ Returned
    /\ \E i \in MdKept : /\ FieldViolates("category", md_files[i])
                         /\ FieldViolates("semver", md_files[i])
    /\ \E i \in MdKept : /\ ~FieldViolates("semver", md_files[i])
                         /\ md_files[i].version.s # Ident(md_files[i].version)
    /\ \E j \in YmlKept : \E k \in DOMAIN yml_files[j].entries :
          SeverityViolates(yml_files[j].entries[k])

\* The forwarded records whose identifier is X.
Occurrences(X) == {r \in Records : RecForwarded(r) /\ Ident(RecId(r)) = X}

\* C9: after the duplicate-id check, its identifier map has one key per
\* non-empty identifier of the forwarded records of both kinds and one
\* location per occurrence; an identifier with more than one location has
\* exactly one duplicate-id failure, listing all its locations; an identifier
\* with one location has none; the identifier set is the key set of the map.
C9_DuplicateMap ==
    Past("duplicate-id") =>
        LET id_locations == build_id_locations(md_frontmatters, yml_entries)
            keys == {id_locations[n].id : n \in DOMAIN id_locations}
        IN  /\ \A a, b \in DOMAIN id_locations :
                  a # b => id_locations[a].id # id_locations[b].id
            /\ keys = {Ident(RecId(r)) : r \in {r \in Records : RecForwarded(r)}} \ {<<>>}
            /\ all_ids = keys
            /\ \A n \in DOMAIN id_locations :
                  LET X == id_locations[n].id
                      locs == id_locations[n].locs
                      dups == {k \in DOMAIN errors : /\ errors[k].check = "duplicate-id"
                                                     /\ errors[k].tag = "dup"
                                                     /\ errors[k].id = X}
                  IN  /\ Len(locs) = Cardinality(Occurrences(X))
                      /\ \A r \in Occurrences(X) :
                            Cardinality({l \in DOMAIN locs :
                                locs[l] = [frontmatter |-> r.md, file |-> r.file]})
                              = Cardinality({t \in Occurrences(X) :
                                                t.md = r.md /\ t.file = r.file})
                      /\ Cardinality(dups) = (IF Len(locs) > 1 THEN 1 ELSE 0)
                      /\ \A k \in dups : errors[k].locs = locs
            /\ Count(errors, LAMBDA m : m.check = "duplicate-id") =
                  Cardinality({n \in DOMAIN id_locations : Len(id_locations[n].locs) > 1})

\* A duplicate-id failure that lists a doc record and two entries of one
\* entry-list file; a second identifier occurs once and has no failure.
C9_Witness ==
    /\ Past("duplicate-id")
    /\ \E k \in DOMAIN errors :
          /\ errors[k].check = "duplicate-id"
          /\ Len(errors[k].locs) = 3
          /\ errors[k].locs[1].frontmatter
          /\ ~errors[k].locs[2].frontmatter
          /\ errors[k].locs[2] = errors[k].locs[3]

\* r1 is discovered before r2: the doc-like files in the order found, then
\* the entry-list files in the order found, the entries of a file in order.
Rank(r) == IF r.md THEN r.file ELSE Len(md_files) + r.file
Before(r1, r2) == Rank(r1) < Rank(r2) \/ (Rank(r1) = Rank(r2) /\ r1.k < r2.k)

\* The forwarded record with identifier X that is discovered first.
FirstOccurrence(X) ==
    CHOOSE r \in Occurrences(X) : \A t \in Occurrences(X) : t = r \/ Before(r, t)

\* Message a may precede message b of the same check: the closing line is
\* last, duplicate-id failures follow the first occurrences of their
\* identifiers, and the other messages follow the files.
InLoadOrder(a, b) ==
    /\ a.tag # "summary"
    /\ IF a.check = "duplicate-id"
       THEN Before(FirstOccurrence(a.id), FirstOccurrence(b.id))
       ELSE b.tag = "summary" \/ a.file <= b.file

\* C10: the report of a run that returned is the pass messages, then, only
\* if there is a failure, a separator and the failure messages; each block
\* keeps the order of accumulation, which is the pipeline order of the checks
\* and, within a check, the order in which the records were discovered.
C10_ReportOrder ==
    Returned =>
        LET np == Len(passes)
            ne == Len(errors)
        IN  /\ Len(output) = np + (IF ne > 0 THEN ne + 1 ELSE 0)
            /\ \A k \in 1..np : output[k] = passes[k] /\ output[k].tag = "pass"
            /\ ne > 0 => output[np + 1] = BlankLine
            /\ \A k \in 1..ne : /\ output[np + 1 + k] = errors[k]
                                /\ output[np + 1 + k].tag \notin {"pass", "blank"}
            /\ \A a, b \in DOMAIN output :
                  (a < b /\ output[a].tag = output[b].tag /\ output[a].tag = "pass") =>
                      StageNo(output[a].check) < StageNo(output[b].check)
            /\ \A a, b \in (np + 2)..Len(output) :
                  a < b =>
                      /\ StageNo(output[a].check) <= StageNo(output[b].check)
                      /\ output[a].check = output[b].check => InLoadOrder(output[a], output[b])

\* A report with passes and with failures of three checks, two of them
\* failures of one check about two different files.
C10_Witness ==
    /\ Returned
    /\ Len(passes) >= 2
    /\ Cardinality({errors[k].check : k \in DOMAIN errors}) >= 3
    /\ \E a, b \in DOMAIN output :
          /\ output[a].check = output[b].check
          /\ output[a].tag # "summary" /\ output[b].tag # "summary"
          /\ output[a].file < output[b].file

BumpArgs == {"major", "minor", "patch", "Major", "none", ""}

\* The three numbers a bump of type t must give.
Bumped(major, minor, patch, t) ==
    IF t = "major" THEN <<major + 1, 0, 0>>
    ELSE IF t = "minor" THEN <<major, minor + 1, 0>>
    ELSE <<major, minor, patch + 1>>

\* The three numbers written in a version string, <<>> if it is not one.
Numbers(version_str) ==
    LET v == get_current_version(version_str)
    IN  IF v.ok THEN <<v.major, v.minor, v.patch>> ELSE <<>>

\* The name BUMP_TYPE holds once trimmed and lowered, "" if it holds none.
EnvChoice == IF \E t \in {"major", "minor", "patch"} : Lower(Strip(bumper.env)) = <<t>>
             THEN Lower(Strip(bumper.env))[1] ELSE ""

\* The latest commit message could be read and holds the label bump:t.
Labelled(t) == bumper.git = "ok" /\ Contains(Lower(bumper.stdout), <<"bump:", t>>)

\* C12: bump_version gives (major+1).0.0 for major, major.(minor+1).0 for
\* minor and major.minor.(patch+1) for patch or any other bump type;
\* get_bump_type gives the trimmed, lowered BUMP_TYPE when that is major,
\* minor or patch, otherwise the label of the latest commit message, with
\* bump:major before bump:minor before bump:patch, and patch without a label.
C12_BumpRules ==
    /\ bumper.stage \in {"versioned", "typed", "done"} =>
          \A t \in BumpArgs :
             Numbers(bump_version(bumper.major, bumper.minor, bumper.patch, t))
                = Bumped(bumper.major, bumper.minor, bumper.patch, t)
    /\ bumper.stage \in {"typed", "done"} =>
          bumper.bump_type = IF EnvChoice # "" THEN EnvChoice
                             ELSE IF Labelled("major") THEN "major"
                             ELSE IF Labelled("minor") THEN "minor"
                             ELSE "patch"
    /\ bumper.stage = "done" =>
          Numbers(bumper.new_version)
             = Bumped(bumper.major, bumper.minor, bumper.patch, bumper.bump_type)

\* BUMP_TYPE holds no bump type, the commit message holds bump:minor and
\* bump:major, and 9.10.99 became 10.0.0.
C12_Witness ==
    /\ bumper.stage = "done"
    /\ EnvChoice = ""
    /\ Labelled("minor") /\ Labelled("major")
    /\ bumper.version = <<"9", ".", "1", "0", ".", "9", "9">>
    /\ bumper.bump_type = "major"
    /\ bumper.new_version = <<"1", "0", ".", "0", ".", "0">>

\* ---------------------------------------------------------------- C13
\* C13: duplicate identifiers, broken references and values outside the
\* enumerations are only reported: whatever the shape of the value, none of
\* the checks that follow the schema checks raises, so no such violation
\* stops the run before the report and the exit status.
C13_ViolationNeverStopsRun == Past("yml-schema") => exc = ""

\* ---------------------------------------------------------------- C14
\* C14: whenever a run ends with exit status 0, every two distinct records of
\* the registry, doc records and error entries alike, have different
\* identifiers, compared as trimmed strings; records whose id is empty or
\* blank are included.
C14_ExitZeroMeansUnique ==
    (Returned /\ exit = 0) =>
        \A r1, r2 \in Records : r1 # r2 => Ident(RecId(r1)) # Ident(RecId(r2))

\* C14 as amended: whenever a run ends with exit status 0, every two distinct
\* records whose identifiers are not empty once trimmed have different
\* identifiers, compared as trimmed strings, and each such identifier is in
\* the identifier set.
C14_ExitZeroMeansUniqueNonEmpty ==
    (Returned /\ exit = 0) =>
        /\ \A r1, r2 \in Records :
              (r1 # r2 /\ Ident(RecId(r1)) # <<>>) => Ident(RecId(r1)) # Ident(RecId(r2))
        /\ \A r \in Records : Ident(RecId(r)) # <<>> => Ident(RecId(r)) \in all_ids

\* A run ended with exit status 0 on a registry with a doc record and an
\* error entry whose ids are not empty, one of them padded, and a third record.
C14_Witness ==
    /\ Returned /\ exit = 0
    /\ Cardinality(Records) >= 3
    /\ \E r1 \in MdRecords, r2 \in YmlRecords :
          /\ Ident(RecId(r1)) # <<>> /\ Ident(RecId(r2)) # <<>>
          /\ PyStr(RecId(r1)) # Ident(RecId(r1))

\* ---------------------------------------------------------------- C15
\* The pass messages and the failure messages a check has contributed.
PassesOf(check) == Count(passes, LAMBDA m : m.check = check)
FailuresOf(check) == Count(errors, LAMBDA m : m.check = check)

\* C15: after a complete run each of the eight checks has contributed either
\* exactly one pass message and no failure message, or at least one failure
\* message and no pass message; a run with exit status 0 has exactly eight
\* pass messages, and the pass messages plus the checks with failures number
\* eight.
C15_PassOrFailPerCheck ==
    Returned =>
        /\ \A check \in CheckNames :
              \/ PassesOf(check) = 1 /\ FailuresOf(check) = 0
              \/ PassesOf(check) = 0 /\ FailuresOf(check) >= 1
        /\ \A k \in DOMAIN passes : passes[k].check \in CheckNames
        /\ exit = 0 => Len(passes) = 8
        /\ Len(passes) + Cardinality({check \in CheckNames : FailuresOf(check) >= 1}) = 8

\* A complete run in which the duplicate-id check and a value check failed,
\* one check contributed several failure messages, and other checks passed.
C15_Witness ==
    /\ Returned
    /\ FailuresOf("duplicate-id") >= 1
    /\ FailuresOf("category") >= 2
    /\ PassesOf("frontmatter") = 1
    /\ PassesOf("severity") = 1
    /\ Len(passes) < 6


====
